---- MODULE Spec2Model ----
(***************************************************************************)
(* Model of lib/downloader.py: download_batch fans a list of URLs out into *)
(* one download_decision coroutine per URL (asyncio.gather); each decides  *)
(* from the local file size and the remote Content-Length whether to       *)
(* create, overwrite, append to or skip the destination file, and          *)
(* download_file streams the response body into it in chunks, reporting    *)
(* progress.                                                               *)
(*                                                                         *)
(* A step of the model is what one coroutine does between two suspension   *)
(* points of the event loop (asyncio runs one coroutine at a time).        *)
(* File contents are kept as sequences of runs [src, off, len]: len bytes  *)
(* taken at offset off of the byte source src (a remote resource, the      *)
(* bytes the file held before the first run, or a zero-filled hole).       *)
(* Writes reach the file when file.write returns (the buffer of the file   *)
(* object is not modelled: it is flushed when the with-block closes it).   *)
(***************************************************************************)
EXTENDS Integers, Sequences, FiniteSets, TLC

VARIABLES
    urls,       \* download_batch's argument: the list of URLs
    run,        \* how many times download_batch was called on urls
    gather,     \* asyncio.gather of the current call: pending, returned, raised
    prev,       \* how the previous call of download_batch ended ("none" in the first)
    tasks,      \* one download_decision coroutine per URL of the batch
    disk,       \* the destination files: [exists, data]
    disk0,      \* the destination files when the current call started
    folder      \* whether abs_download_folder exists

vars == <<urls, run, gather, prev, tasks, disk, disk0, folder>>

(***************************************************************************)
(* Bounds                                                                  *)
(***************************************************************************)
MaxBatch == 2       \* URLs in a batch
MaxRuns == 2        \* calls of download_batch on the same batch
MaxChunks == 16     \* reads one response stream is split into, at most

(***************************************************************************)
(* The remote side: URLs, their resources and their response headers.      *)
(* A URL is <<host, path segment, ..., path segment>>.                     *)
(***************************************************************************)
UrlZero == <<"h1", "maps", "z.osz">>
UrlTiny == <<"h1", "maps", "t.osz">>
UrlSmall == <<"h1", "maps", "s.osz">>
UrlLarge == <<"h1", "maps", "l.osz">>
UrlNoLength == <<"h1", "maps", "n.osz">>
UrlMirror == <<"h2", "mirror", "t.osz">>

Urls == {UrlZero, UrlTiny, UrlSmall, UrlLarge, UrlNoLength, UrlMirror}

\* Total byte length of the resource behind a URL.
RemoteSize(url) ==
    CASE url = UrlZero -> 0
      [] url = UrlTiny -> 5
      [] url = UrlSmall -> 12
      [] url = UrlLarge -> 15000
      [] url = UrlNoLength -> 5
      [] OTHER -> 5

\* Whether the response to a GET of the URL carries a Content-Length header.
HasContentLength(url) == url # UrlNoLength

\* URLs that may share a batch with other URLs (one-URL batches take any).
BatchUrls == {UrlZero, UrlTiny, UrlNoLength}

\* os.path.basename(parse.unquote(parse.urlparse(url).path)): the last path
\* segment (the segments of the model hold no percent-escapes).
basename(url) == url[Len(url)]

Files == {basename(u) : u \in Urls}

(***************************************************************************)
(* File contents                                                           *)
(***************************************************************************)
Run(src, off, len) == [src |-> src, off |-> off, len |-> len]

RECURSIVE getsize(_)
getsize(data) == IF data = <<>> THEN 0 ELSE data[1].len + getsize(Tail(data))

\* data followed by the run r, adjacent runs of one source merged.
Extend(data, r) ==
    IF r.len = 0 THEN data
    ELSE IF data # <<>>
            /\ data[Len(data)].src = r.src
            /\ data[Len(data)].off + data[Len(data)].len = r.off
         THEN [data EXCEPT ![Len(data)].len = @ + r.len]
         ELSE Append(data, r)

RECURSIVE Join(_, _)
Join(a, b) == IF b = <<>> THEN a ELSE Join(Extend(a, b[1]), Tail(b))

RECURSIVE TakeBytes(_, _)
TakeBytes(data, n) ==
    IF n <= 0 \/ data = <<>> THEN <<>>
    ELSE IF data[1].len <= n
         THEN <<data[1]>> \o TakeBytes(Tail(data), n - data[1].len)
         ELSE <<[data[1] EXCEPT !.len = n]>>

RECURSIVE DropBytes(_, _)
DropBytes(data, n) ==
    IF data = <<>> THEN <<>>
    ELSE IF n <= 0 THEN data
    ELSE IF data[1].len <= n
         THEN DropBytes(Tail(data), n - data[1].len)
         ELSE <<[data[1] EXCEPT !.off = @ + n, !.len = @ - n]>> \o Tail(data)

\* The bytes [from, from + len) of the resource behind url.
RemoteBytes(url, from, len) == Run(url, from, len)

\* The whole resource behind url, as file contents.
RemoteData(url) == Extend(<<>>, RemoteBytes(url, 0, RemoteSize(url)))

\* The bytes a destination file holds before the first call.
LocalData(f, n) == Extend(<<>>, Run(<<"local", f>>, 0, n))

Absent == [exists |-> FALSE, data |-> <<>>]

(***************************************************************************)
(* lib.disk.OpenModes and the file object                                  *)
(***************************************************************************)
\* OpenModes.<member>.value: the mode string handed to open().
OpenModes(member) ==
    CASE member = "WRITE_BYTE" -> "xb"
      [] member = "OVERWRITE_BYTE" -> "wb"
      [] member = "APPEND_BYTE" -> "ab"

\* An open() that empties the file in every mode.
open_truncating(file, mode) ==
    [ok |-> mode # "xb" \/ ~file.exists,
     file |-> IF mode = "xb" /\ file.exists THEN file ELSE [exists |-> TRUE, data |-> <<>>]]

\* open(abs_filename, mode): whether it succeeds, and the file afterwards.
\* "xb" creates the file and fails if it exists, "wb" creates or truncates it,
\* "ab" creates it or keeps its bytes.
open(file, mode) ==
    CASE mode = "xb" -> [ok |-> ~file.exists, file |-> IF file.exists THEN file
                                                        ELSE [exists |-> TRUE, data |-> <<>>]]
      [] mode = "wb" -> [ok |-> TRUE, file |-> [exists |-> TRUE, data |-> <<>>]]
      [] mode = "ab" -> [ok |-> TRUE, file |-> [exists |-> TRUE, data |-> file.data]]

\* file.write(chunk) through a handle opened with mode whose position is pos:
\* an append handle writes at the end of the file, the others at their own
\* position (a position past the end leaves a zero-filled hole).
write(data, mode, pos, chunk) ==
    IF mode = "ab" THEN Extend(data, chunk)
    ELSE LET size == getsize(data)
             padded == IF pos > size
                       THEN Extend(data, Run(<<"zero">>, 0, pos - size))
                       ELSE data
         IN  Join(Extend(TakeBytes(padded, pos), chunk),
                  DropBytes(padded, pos + chunk.len))

(***************************************************************************)
(* download_file's arithmetic                                              *)
(***************************************************************************)
chunk_size == 1024
increment == 10

\* filesize += chunk_size
filesize_after_chunk(filesize, chunk) == filesize + chunk_size

\* int(percent / increment), percent = filesize * 100 / expected_size
new_prog(filesize, expected_size) == (filesize * 100) \div (expected_size * increment)

\* f"{percent:.0f}": percent rounded to the nearest integer, halves to even.
percent_shown(filesize, expected_size) ==
    LET q == (filesize * 100) \div expected_size
        r == (filesize * 100) % expected_size
    IN  IF 2 * r < expected_size THEN q
        ELSE IF 2 * r > expected_size THEN q + 1
        ELSE IF q % 2 = 0 THEN q ELSE q + 1

\* The comparison with >= in place of >.
reports_or_equal(new, old) == new >= old

\* if new_prog > old_prog
reports(new, old) == new > old

\* A line handed to pprint: its kind (starting, skipped, resuming, progress,
\* downloaded) and, for a progress line, the decile and the percentage shown.
Line(kind, decile, percent) == [kind |-> kind, decile |-> decile, percent |-> percent]

\* pprint(ind(f"{q(filename)} - {percent:.0f}%"))
progress_line(prog, filesize, expected_size) ==
    Line("progress", prog, percent_shown(filesize, expected_size))

\* The line printed however the with-block is left.
downloaded_line_finally(printed, raised) == Append(printed, Line("downloaded", 0, 0))

\* pprint(f"{ind(f'Downloaded {q(filename)}!')}") follows the with-block: it
\* is reached when the loop breaks, not when the block is left by an exception.
downloaded_line(printed, raised) ==
    IF raised THEN printed ELSE Append(printed, Line("downloaded", 0, 0))

(***************************************************************************)
(* download_decision's choices                                             *)
(***************************************************************************)
\* filesize = os.path.getsize(abs_filename) if os.path.exists(abs_filename) else 0
local_filesize(file) == IF file.exists THEN getsize(file.data) ELSE 0

\* The Range header left at the start of the resource.
range_offset_start(filesize) == 0

\* headers={"Range": f"bytes={filesize}-"}: the offset the content request asks from.
range_offset(filesize) == filesize

\* The chain without its first branch: a missing file handled as an empty one.
decision_without_create(exists, filesize, expected_size) ==
    IF ~exists \/ filesize = 0 THEN "OVERWRITE"
    ELSE IF filesize >= expected_size THEN "SKIP"
    ELSE "APPEND"

\* The chain with the size comparison ahead of the test for an empty file.
decision_compare_first(exists, filesize, expected_size) ==
    IF ~exists THEN "CREATE"
    ELSE IF filesize >= expected_size THEN "SKIP"
    ELSE IF filesize = 0 THEN "OVERWRITE"
    ELSE "APPEND"

\* The if/elif chain: which branch is taken.
decision(exists, filesize, expected_size) ==
    IF ~exists THEN "CREATE"
    ELSE IF filesize = 0 THEN "OVERWRITE"
    ELSE IF filesize >= expected_size THEN "SKIP"
    ELSE "APPEND"

\* os.makedirs(abs_download_folder): raises FileExistsError if the folder is
\* there (exist_ok is left False).
makedirs(exists) == [ok |-> ~exists, exists |-> TRUE]

\* The folder created without asking whether it exists.
ensure_folder_unchecked(exists) == makedirs(exists)

\* if not os.path.exists(abs_download_folder): os.makedirs(abs_download_folder)
ensure_folder(exists) ==
    IF ~exists THEN makedirs(exists) ELSE [ok |-> TRUE, exists |-> TRUE]

\* A missing Content-Length read as 0 instead of raising.
content_length_or_zero(url) ==
    [raised |-> FALSE,
     expected_size |-> IF HasContentLength(url) THEN RemoteSize(url) ELSE 0]

\* expected_size = int(response.headers["Content-Length"]); the KeyError of a
\* missing header is raised again as DownloadError.
content_length(url) ==
    IF HasContentLength(url)
    THEN [raised |-> FALSE, expected_size |-> RemoteSize(url)]
    ELSE [raised |-> TRUE, expected_size |-> 0]

\* The line each branch prints: p_starting, p_skipped or p_resuming.
decision_line(d) ==
    CASE d \in {"CREATE", "OVERWRITE"} -> Line("starting", 0, 0)
      [] d = "SKIP" -> Line("skipped", 0, 0)
      [] d = "APPEND" -> Line("resuming", 0, 0)

\* The OpenModes member each branch hands to download_file.
decision_mode(d) ==
    CASE d = "CREATE" -> "WRITE_BYTE"
      [] d = "OVERWRITE" -> "OVERWRITE_BYTE"
      [] d = "APPEND" -> "APPEND_BYTE"

\* The filesize argument each branch hands to download_file (default 0).
decision_filesize(d, filesize) == IF d = "APPEND" THEN filesize ELSE 0

(***************************************************************************)
(* State                                                                   *)
(***************************************************************************)
Tasks == 1..Len(urls)

NewTask == [
    pc |-> "new",               \* new, size, content, read, done, skipped, error, cancelled
    made_folder |-> FALSE,      \* whether this coroutine created the folder
    requests |-> 0,             \* GET requests this coroutine has sent
    filesize |-> 0,             \* download_decision's filesize
    expected_size |-> 0,
    range |-> 0,                \* offset of the Range header sent
    decision |-> "NONE",
    mode |-> "NONE",            \* mode string of the open file
    opened_at |-> 0,            \* size of the file when download_file opened it
    total |-> 0,                \* download_file's filesize
    old_prog |-> 0,
    pos |-> 0,                  \* position of the file handle
    sent |-> 0,                 \* offset of the next byte of the response body
    reads |-> 0,                \* non-empty reads of the response body so far
    written |-> 0,              \* bytes this transfer has written
    printed |-> <<>>,           \* the lines this coroutine has printed
    fault |-> "none"]           \* what made the coroutine raise

Terminal(t) == tasks[t].pc \in {"done", "skipped", "error", "cancelled"}
Started(t) == tasks[t].pc # "new"
\* Every task writing to the path of the first URL of the list.
Dest_of_first(t) == basename(urls[1])

\* The path a task opens: the folder joined with the last segment of its URL.
Dest(t) == basename(urls[t])

\* The sizes a destination file may have before the first call.
InitialSizes(url) ==
    IF HasContentLength(url)
    THEN {0, (RemoteSize(url) * 3) \div 5, RemoteSize(url), RemoteSize(url) + 1}
    ELSE {(RemoteSize(url) * 3) \div 5}

InitialFiles(f, us) ==
    IF \E u \in us : basename(u) = f
    THEN {Absent} \cup {[exists |-> TRUE, data |-> LocalData(f, n)] :
                           n \in UNION {InitialSizes(u) : u \in {v \in us : basename(v) = f}}}
    ELSE {Absent}

Range(s) == {s[i] : i \in 1..Len(s)}

Distinct(s) == \A i, j \in 1..Len(s) : i # j => basename(s[i]) # basename(s[j])

SeqsUpTo(S, n) == UNION {[1..k -> S] : k \in 1..n}

\* Every list of URLs the model tries: any single URL, the lists of up to
\* MaxBatch URLs of BatchUrls, two resources that both take several reads, and
\* two URLs of one destination.
AllBatches ==
    {<<u>> : u \in Urls} \cup SeqsUpTo(BatchUrls, MaxBatch)
        \cup {<<UrlTiny, UrlSmall>>}
        \cup {<<UrlTiny, UrlMirror>>, <<UrlMirror, UrlTiny>>}

\* The batches in which no two URLs resolve to the same destination path.
Batches == {s \in AllBatches : Distinct(s)}

InitWith(batches) ==
    /\ urls \in batches
    /\ run = 1
    /\ gather = "pending"
    /\ prev = "none"
    /\ tasks = [t \in 1..Len(urls) |-> NewTask]
    /\ folder \in BOOLEAN
    /\ disk \in [Files -> UNION {InitialFiles(f, Range(urls)) : f \in Files}]
    /\ \A f \in Files : disk[f] \in InitialFiles(f, Range(urls))
    /\ folder = FALSE => \A f \in Files : ~disk[f].exists
    /\ disk0 = disk

Init == InitWith(Batches)

(***************************************************************************)
(* download_decision                                                       *)
(***************************************************************************)
\* Lines 45-51, up to the first request: the tasks gather creates start in
\* list order, each running to its first suspension before any response is
\* handled.
download_decision_local(t) ==
    /\ tasks[t].pc = "new"
    /\ \A s \in Tasks : s < t => Started(s)
    /\ LET made == ensure_folder(folder)
       IN  /\ folder' = made.exists
           /\ IF made.ok
              THEN tasks' = [tasks EXCEPT
                      ![t].filesize = local_filesize(disk[Dest(t)]),
                      ![t].made_folder = ~folder,
                      ![t].requests = 1,
                      ![t].pc = "size"]
              ELSE tasks' = [tasks EXCEPT
                      ![t].filesize = local_filesize(disk[Dest(t)]),
                      ![t].pc = "error", ![t].fault = "makedirs"]
    /\ UNCHANGED <<urls, run, gather, prev, disk, disk0>>

\* Lines 54-63: the first response arrives; its Content-Length is read, or the
\* missing header raises DownloadError; then the content request is sent.
download_decision_size(t) ==
    /\ tasks[t].pc = "size"
    /\ \A s \in Tasks : Started(s)
    /\ LET length == content_length(urls[t])
       IN  IF ~length.raised
           THEN tasks' = [tasks EXCEPT ![t].expected_size = length.expected_size,
                                       ![t].range = range_offset(tasks[t].filesize),
                                       ![t].sent = range_offset(tasks[t].filesize),
                                       ![t].requests = 2,
                                       ![t].pc = "content"]
           ELSE tasks' = [tasks EXCEPT ![t].pc = "error", ![t].fault = "size"]
    /\ UNCHANGED <<urls, run, gather, prev, disk, disk0, folder>>

\* Lines 64-82 and download_file up to its first read: the branch is taken and,
\* unless it is the skip, the file is opened.
download_decision_branch(t) ==
    /\ tasks[t].pc = "content"
    /\ LET file == disk[Dest(t)]
           d == decision(file.exists, tasks[t].filesize, tasks[t].expected_size)
       IN  IF d = "SKIP"
           THEN /\ tasks' = [tasks EXCEPT ![t].decision = d, ![t].pc = "skipped",
                                          ![t].printed = Append(@, decision_line(d))]
                /\ UNCHANGED disk
           ELSE LET mode == OpenModes(decision_mode(d))
                    o == open(file, mode)
                IN  IF o.ok
                    THEN /\ disk' = [disk EXCEPT ![Dest(t)] = o.file]
                         /\ tasks' = [tasks EXCEPT
                                ![t].decision = d,
                                ![t].mode = mode,
                                ![t].opened_at = getsize(file.data),
                                ![t].total = decision_filesize(d, tasks[t].filesize),
                                ![t].old_prog = 0,
                                ![t].pos = IF mode = "ab" THEN getsize(file.data) ELSE 0,
                                ![t].printed = Append(@, decision_line(d)),
                                ![t].pc = "read"]
                    ELSE /\ tasks' = [tasks EXCEPT ![t].decision = d,
                                                   ![t].printed = Append(@, decision_line(d)),
                                                   ![t].pc = "error",
                                                   ![t].fault = "open"]
                         /\ UNCHANGED disk
    /\ UNCHANGED <<urls, run, gather, prev, disk0, folder>>

\* A request fails (no retry anywhere): the exception ends the coroutine.
download_decision_neterror(t) ==
    /\ tasks[t].pc \in {"size", "content"}
    /\ \A s \in Tasks : Started(s)
    /\ tasks' = [tasks EXCEPT ![t].pc = "error", ![t].fault = "net"]
    /\ UNCHANGED <<urls, run, gather, prev, disk, disk0, folder>>

(***************************************************************************)
(* download_file                                                           *)
(***************************************************************************)
\* A with-block that deletes the file when an exception leaves it.
remove_on_error(file) == Absent

\* The with-block left by an exception: the file is closed and stays.
close_on_error(file) == file

\* Bytes of the response body not yet delivered.
Remaining(t) ==
    IF RemoteSize(urls[t]) > tasks[t].sent THEN RemoteSize(urls[t]) - tasks[t].sent ELSE 0

Min(a, b) == IF a < b THEN a ELSE b

\* The lengths response.content.read(chunk_size) may return next: as much as
\* a read can carry, or a single byte (a short read).
ReadSizes == {1, chunk_size}

ReadLengths(t) ==
    {n \in {Min(k, Remaining(t)) : k \in ReadSizes} :
        /\ 1 <= n
        /\ n <= Remaining(t)
        /\ tasks[t].reads + 1 + ((Remaining(t) - n + chunk_size - 1) \div chunk_size)
              <= MaxChunks}

\* One turn of the loop with a non-empty chunk of n bytes (lines 30-39).
download_file_chunk(t, n) ==
    /\ tasks[t].pc = "read"
    /\ LET tk == tasks[t]
           chunk == RemoteBytes(urls[t], tk.sent, n)
           filesize == filesize_after_chunk(tk.total, n)
           written == [disk[Dest(t)] EXCEPT !.data = write(@, tk.mode, tk.pos, chunk)]
       IN  /\ disk' = [disk EXCEPT ![Dest(t)] =
                          IF tk.expected_size = 0 THEN close_on_error(written) ELSE written]
           /\ IF tk.expected_size = 0
              THEN tasks' = [tasks EXCEPT ![t].sent = @ + n, ![t].reads = @ + 1,
                                          ![t].pos = @ + n, ![t].written = @ + n,
                                          ![t].total = filesize,
                                          ![t].printed = downloaded_line(@, TRUE),
                                          ![t].pc = "error", ![t].fault = "zerodivision"]
              ELSE LET prog == new_prog(filesize, tk.expected_size)
                       report == reports(prog, tk.old_prog)
                   IN  tasks' = [tasks EXCEPT
                           ![t].sent = @ + n, ![t].reads = @ + 1,
                           ![t].pos = @ + n, ![t].written = @ + n,
                           ![t].total = filesize,
                           ![t].old_prog = IF report THEN prog ELSE @,
                           ![t].printed =
                               IF report
                               THEN Append(@, progress_line(prog, filesize, tk.expected_size))
                               ELSE @]
    /\ UNCHANGED <<urls, run, gather, prev, disk0, folder>>

\* A loop that reads again after an empty chunk instead of breaking.
download_file_no_break(t) ==
    /\ tasks[t].pc = "read"
    /\ Remaining(t) = 0
    /\ UNCHANGED vars

\* The read returns an empty chunk: the loop ends, the file is closed and the
\* "Downloaded" line is printed (lines 31-32, 40).
download_file_end(t) ==
    /\ tasks[t].pc = "read"
    /\ Remaining(t) = 0
    /\ tasks' = [tasks EXCEPT ![t].pc = "done", ![t].printed = downloaded_line(@, FALSE)]
    /\ UNCHANGED <<urls, run, gather, prev, disk, disk0, folder>>

\* file.write raises with nothing of the chunk written (a read that raises
\* leaves the same state): the with-block closes the file and the exception
\* ends the coroutine.
download_file_error(t) ==
    /\ tasks[t].pc = "read"
    /\ Remaining(t) > 0
    /\ tasks' = [tasks EXCEPT ![t].pc = "error", ![t].fault = "write",
                              ![t].printed = downloaded_line(@, TRUE)]
    /\ disk' = [disk EXCEPT ![Dest(t)] = close_on_error(@)]
    /\ UNCHANGED <<urls, run, gather, prev, disk0, folder>>

(***************************************************************************)
(* download_batch                                                          *)
(***************************************************************************)
\* A gather that cancels the tasks still running when one raises.
gather_cancelling(ts) ==
    [t \in DOMAIN ts |->
        IF ts[t].pc \in {"done", "skipped", "error", "cancelled"} THEN ts[t]
        ELSE [ts[t] EXCEPT !.pc = "cancelled"]]

\* What asyncio.gather does to the other tasks when one raises: nothing.
gather_on_exception(ts) == ts

\* await asyncio.gather(*tasks) raises the first exception of a task.
download_batch_raise ==
    /\ gather = "pending"
    /\ \E t \in Tasks : tasks[t].pc = "error"
    /\ gather' = "raised"
    /\ tasks' = gather_on_exception(tasks)
    /\ UNCHANGED <<urls, run, prev, disk, disk0, folder>>

\* await asyncio.gather(*tasks) returns when every task has returned.
download_batch_return ==
    /\ gather = "pending"
    /\ \A t \in Tasks : tasks[t].pc \in {"done", "skipped"}
    /\ gather' = "returned"
    /\ UNCHANGED <<urls, run, prev, tasks, disk, disk0, folder>>

\* download_batch is called again on the same URLs and folder, once the
\* previous call is over and none of its tasks is left.
download_batch_again ==
    /\ run < MaxRuns
    /\ gather # "pending"
    /\ \A t \in Tasks : Terminal(t)
    /\ run' = run + 1
    /\ prev' = gather
    /\ gather' = "pending"
    /\ tasks' = [t \in Tasks |-> NewTask]
    /\ disk0' = disk
    /\ UNCHANGED <<urls, disk, folder>>

Next ==
    \/ \E t \in Tasks : download_decision_local(t)
    \/ \E t \in Tasks : download_decision_size(t)
    \/ \E t \in Tasks : download_decision_branch(t)
    \/ \E t \in Tasks : download_decision_neterror(t)
    \/ \E t \in Tasks : \E n \in ReadLengths(t) : download_file_chunk(t, n)
    \/ \E t \in Tasks : download_file_end(t)
    \/ \E t \in Tasks : download_file_error(t)
    \/ download_batch_raise
    \/ download_batch_return
    \/ download_batch_again

Spec == Init /\ [][Next]_vars

\* The same program on every list of URLs, those included in which two URLs
\* resolve to the same destination path (the list is not deduplicated).
InitAnyBatch == InitWith(AllBatches)

SpecAnyBatch == InitAnyBatch /\ [][Next]_vars

\* The event loop runs a coroutine that is ready, every response arrives (or
\* its request fails) and every stream delivers its next chunk: a step that
\* stays possible is eventually taken.  Checked on the single URLs and on the
\* pairs of BatchUrls.
FairBatches == {s \in Batches : Len(s) <= 2 /\ s # <<UrlTiny, UrlSmall>>}

InitFair == InitWith(FairBatches)

SpecFair == InitFair /\ [][Next]_vars /\ WF_vars(Next)

(***************************************************************************)
(* Properties                                                              *)
(***************************************************************************)
Decided(t) == tasks[t].decision # "NONE"
File0(t) == disk0[Dest(t)]
LocalSize0(t) == getsize(File0(t).data)
Size(t) == RemoteSize(urls[t])

\* C1: a target whose destination file exists with a size >= RemoteSize when
\* the call starts, both sizes 0 included, is skipped: no file is opened and
\* the file stays as it was.
C1_SkipWhenNotSmaller ==
    \A t \in Tasks :
        (Decided(t) /\ File0(t).exists /\ LocalSize0(t) >= Size(t))
            => /\ tasks[t].decision = "SKIP"
               /\ tasks[t].mode = "NONE"
               /\ disk[Dest(t)] = File0(t)

\* C2: a target with 0 < local size < RemoteSize is appended to, from a range
\* request starting at the local size; the bytes the file held stay its
\* prefix, and when the transfer is done the file's size is RemoteSize.
C2_AppendKeepsPrefix ==
    \A t \in Tasks :
        (Decided(t) /\ File0(t).exists /\ 0 < LocalSize0(t) /\ LocalSize0(t) < Size(t))
            => /\ tasks[t].decision = "APPEND"
               /\ tasks[t].mode = "ab"
               /\ tasks[t].range = LocalSize0(t)
               /\ TakeBytes(disk[Dest(t)].data, LocalSize0(t)) = File0(t).data
               /\ tasks[t].pc = "done" => getsize(disk[Dest(t)].data) = Size(t)

C2_Witness ==
    \E t \in Tasks :
        /\ tasks[t].pc = "done"
        /\ tasks[t].decision = "APPEND"
        /\ tasks[t].written > 0
        /\ LocalSize0(t) > 0
        /\ getsize(disk[Dest(t)].data) = Size(t)

\* C3: a target whose destination file is absent is created, from a range
\* request starting at 0, and when the transfer is done the file's size is
\* RemoteSize.
C3_CreateWhenAbsent ==
    \A t \in Tasks :
        (Decided(t) /\ ~File0(t).exists)
            => /\ tasks[t].decision = "CREATE"
               /\ tasks[t].mode = "xb"
               /\ tasks[t].range = 0
               /\ tasks[t].pc = "done" => getsize(disk[Dest(t)].data) = Size(t)

C3_Witness ==
    \E t \in Tasks :
        /\ tasks[t].pc = "done"
        /\ tasks[t].decision = "CREATE"
        /\ ~File0(t).exists
        /\ tasks[t].written > chunk_size
        /\ getsize(disk[Dest(t)].data) = Size(t)

\* C4: a target whose destination file exists with size 0 is overwritten with
\* a truncating open, never appended to, from a range request starting at 0,
\* and when the transfer is done the file holds exactly the remote resource.
C4_OverwriteWhenEmpty ==
    \A t \in Tasks :
        (Decided(t) /\ File0(t).exists /\ LocalSize0(t) = 0)
            => /\ tasks[t].decision = "OVERWRITE"
               /\ tasks[t].mode = "wb"
               /\ tasks[t].range = 0
               /\ tasks[t].pc = "done" => disk[Dest(t)].data = RemoteData(urls[t])

C4_Witness ==
    \E t \in Tasks :
        /\ tasks[t].pc = "done"
        /\ tasks[t].decision = "OVERWRITE"
        /\ File0(t).exists
        /\ tasks[t].written > 0
        /\ disk[Dest(t)].data = RemoteData(urls[t])

\* C5: when a call of download_batch has returned and it is called again on
\* the same URLs and folder, every target of the second call is skipped,
\* whatever the remote size, 0 included.
C5_SecondRunSkips ==
    (run > 1 /\ prev = "returned")
        => \A t \in Tasks : Decided(t) => /\ tasks[t].decision = "SKIP"
                                          /\ disk[Dest(t)] = File0(t)

\* C6: download_batch returns or raises only when every pipeline of the batch
\* is in a terminal state.
C6_FailTogether == gather # "pending" => \A t \in Tasks : Terminal(t)

\* What a pipeline run alone does to its destination file when it ends
\* without an error of its own: the skip leaves the file, an append adds the
\* rest of the resource, the other branches leave the whole resource.
AloneDecision(t) == decision(File0(t).exists, local_filesize(File0(t)), Size(t))

AloneFile(t) ==
    LET n == local_filesize(File0(t))
    IN  CASE AloneDecision(t) = "SKIP" -> File0(t)
          [] AloneDecision(t) = "APPEND" ->
                [exists |-> TRUE,
                 data |-> Extend(File0(t).data, RemoteBytes(urls[t], n, Size(t) - n))]
          [] OTHER -> [exists |-> TRUE, data |-> RemoteData(urls[t])]

\* C7: a pipeline that fails aborts only itself: no pipeline is cancelled, a
\* pipeline ends in an error only by a failure of its own, and every pipeline
\* that ends without one has decided and left its file as it does alone,
\* whatever its siblings did.
C7_FailureIsolation ==
    \A t \in Tasks :
        /\ tasks[t].pc # "cancelled"
        /\ tasks[t].pc = "error" => tasks[t].fault # "none"
        /\ tasks[t].pc \in {"done", "skipped"}
              => /\ tasks[t].decision = AloneDecision(t)
                 /\ disk[Dest(t)] = AloneFile(t)

C7_Witness ==
    \E s, t \in Tasks :
        /\ s # t
        /\ tasks[s].pc = "error"
        /\ gather = "raised"
        /\ tasks[t].pc = "done"
        /\ tasks[t].written > 0
        /\ disk[Dest(t)] = AloneFile(t)

\* The progress lines a transfer has printed.
IsProgress(line) == line.kind = "progress"
Progress(t) == SelectSeq(tasks[t].printed, IsProgress)

\* C8: the deciles of the progress lines of one transfer are strictly
\* increasing.
C8_DecilesIncrease ==
    \A t \in Tasks :
        \A i, j \in 1..Len(Progress(t)) :
            i < j => Progress(t)[i].decile < Progress(t)[j].decile

C8_Witness ==
    \E t \in Tasks :
        /\ Len(Progress(t)) >= 2
        /\ tasks[t].reads > Len(Progress(t)) + 1

\* C9: one transfer prints at most 11 progress lines, each with a decile in
\* 0..10 and a percentage of at most 100.
C9_DecilesBounded ==
    \A t \in Tasks :
        /\ Len(Progress(t)) <= 11
        /\ \A i \in 1..Len(Progress(t)) :
              /\ Progress(t)[i].decile \in 0..10
              /\ Progress(t)[i].percent <= 100

\* C10: a transfer whose stream reached its end has printed the "Downloaded"
\* line exactly once, as its last line; a transfer that has not, or that
\* ended in an error, has not printed it.
IsDownloaded(line) == line.kind = "downloaded"

C10_OneCompletion ==
    \A t \in Tasks :
        LET printed == tasks[t].printed
            n == Len(SelectSeq(printed, IsDownloaded))
        IN  IF tasks[t].pc = "done"
            THEN n = 1 /\ IsDownloaded(printed[Len(printed)])
            ELSE n = 0

C10_Witness ==
    \E t \in Tasks :
        /\ tasks[t].pc = "done"
        /\ tasks[t].reads = 0
        /\ Progress(t) = <<>>
        /\ IsDownloaded(tasks[t].printed[Len(tasks[t].printed)])

\* C11: when a transfer has completed, the running total download_file kept
\* does not exceed RemoteSize.
C11_TotalWithinSize ==
    \A t \in Tasks : tasks[t].pc = "done" => tasks[t].total <= Size(t)

\* C15: inside download_file the running total is the start offset plus the
\* lengths of the chunks written so far, which is the size of the destination
\* file.
C15_TotalIsFileSize ==
    \A t \in Tasks :
        tasks[t].pc \in {"read", "done"}
            => /\ tasks[t].total
                    = decision_filesize(tasks[t].decision, tasks[t].filesize) + tasks[t].written
               /\ tasks[t].total = getsize(disk[Dest(t)].data)

\* C13: nothing is done to a target's destination file before its first
\* response has given a Content-Length; when the header is missing the
\* pipeline ends in an error after that one request, the file as it was.
C13_SizeBeforeWrite ==
    \A t \in Tasks :
        /\ tasks[t].requests < 2
              => /\ tasks[t].mode = "NONE"
                 /\ tasks[t].decision = "NONE"
                 /\ disk[Dest(t)] = File0(t)
        /\ (~HasContentLength(urls[t]) /\ tasks[t].pc \notin {"new", "size"})
              => /\ tasks[t].pc = "error"
                 /\ tasks[t].fault \in {"size", "net"}
                 /\ tasks[t].requests = 1
                 /\ disk[Dest(t)] = File0(t)

C13_Witness ==
    \E t \in Tasks :
        /\ ~HasContentLength(urls[t])
        /\ tasks[t].pc = "error"
        /\ tasks[t].fault = "size"
        /\ File0(t).exists
        /\ disk[Dest(t)] = File0(t)

\* The bytes a transfer started from: those of the file for an append, none
\* for the other modes.
StartData(t) == IF tasks[t].decision = "APPEND" THEN File0(t).data ELSE <<>>

\* C14: a transfer that ended in an error leaves the destination file in
\* place, holding the bytes it started from followed by every chunk written
\* before the failure.
C14_PartialFileKept ==
    \A t \in Tasks :
        (tasks[t].pc = "error" /\ tasks[t].mode # "NONE")
            => /\ disk[Dest(t)].exists
               /\ disk[Dest(t)].data
                    = Extend(StartData(t),
                             RemoteBytes(urls[t], tasks[t].range, tasks[t].written))

C14_Witness ==
    \E t \in Tasks :
        /\ tasks[t].pc = "error"
        /\ tasks[t].fault = "write"
        /\ tasks[t].reads > 1
        /\ tasks[t].written > 0
        /\ getsize(disk[Dest(t)].data) = getsize(StartData(t)) + tasks[t].written

\* C19: no pipeline fails on creating the folder, whichever pipeline created
\* it, and the folder exists once any pipeline has sent its first request.
C19_FolderCreatedOnce ==
    \A t \in Tasks :
        /\ tasks[t].fault # "makedirs"
        /\ tasks[t].requests > 0 => folder
        /\ tasks[t].made_folder => \A s \in Tasks : s # t => ~tasks[s].made_folder

C19_Witness ==
    \E s, t \in Tasks :
        /\ s # t
        /\ tasks[s].made_folder
        /\ ~tasks[t].made_folder
        /\ tasks[t].requests > 0
        /\ tasks[t].fault = "none"
        /\ folder

\* C12: whatever the list of URLs, no two download_file invocations have the
\* same destination path open for writing at the same time.
Writing(t) == tasks[t].pc = "read"

C12_OneWriterPerFile ==
    \A s, t \in Tasks : (s # t /\ Writing(s) /\ Writing(t)) => Dest(s) # Dest(t)

\* C16: the offset of the Range header agrees with the mode chosen and with
\* the file as download_file opens it: 0 for CREATE and OVERWRITE; for APPEND
\* the seed of the running total and the size of the file when it is opened.
C16_RangeMatchesFile ==
    \A t \in Tasks :
        /\ tasks[t].decision \in {"CREATE", "OVERWRITE"} => tasks[t].range = 0
        /\ tasks[t].decision = "APPEND"
              => /\ tasks[t].range = decision_filesize(tasks[t].decision, tasks[t].filesize)
                 /\ tasks[t].range = tasks[t].opened_at

\* What a transfer run alone (the targets one after another) has done after k
\* reads of a non-empty chunk: the running total, and the progress lines with
\* the last decile reported.
RECURSIVE AloneTotal(_, _)
AloneTotal(seed, k) ==
    IF k = 0 THEN seed ELSE filesize_after_chunk(AloneTotal(seed, k - 1), chunk_size)

RECURSIVE AloneProgress(_, _, _)
AloneProgress(seed, expected_size, k) ==
    IF k = 0 THEN [old_prog |-> 0, lines |-> <<>>]
    ELSE LET before == AloneProgress(seed, expected_size, k - 1)
             filesize == AloneTotal(seed, k)
             prog == new_prog(filesize, expected_size)
         IN  IF reports(prog, before.old_prog)
             THEN [old_prog |-> prog,
                   lines |-> Append(before.lines,
                                    progress_line(prog, filesize, expected_size))]
             ELSE before

AloneSeed(t) == decision_filesize(AloneDecision(t), LocalSize0(t))

\* The destination file of a transfer run alone, once the stream has delivered
\* n bytes to it.
AloneFileAfter(t, n) ==
    [exists |-> TRUE,
     data |-> Extend(IF AloneDecision(t) = "APPEND" THEN File0(t).data ELSE <<>>,
                     RemoteBytes(urls[t], AloneSeed(t), n))]

\* C17: in a batch of pairwise distinct destinations the transfers share no
\* mutable state: at every point of every interleaving, the decision of a
\* transfer, the contents of its file and its progress lines are those of the
\* transfer run alone on the file it found, after as many reads; its final
\* file is the one it leaves when run alone.
C17_NoSharedState ==
    \A t \in Tasks :
        /\ Decided(t) => tasks[t].decision = AloneDecision(t)
        /\ tasks[t].mode = "NONE" => disk[Dest(t)] = File0(t)
        /\ tasks[t].mode # "NONE"
              => /\ disk[Dest(t)] = AloneFileAfter(t, tasks[t].written)
                 /\ tasks[t].total = AloneTotal(AloneSeed(t), tasks[t].reads)
                 /\ Progress(t) = AloneProgress(AloneSeed(t), Size(t), tasks[t].reads).lines
        /\ tasks[t].pc = "done" => disk[Dest(t)] = AloneFile(t)

\* Two transfers are inside their read loops at once, each with chunks written
\* and a progress line printed, and one of them was overtaken by the other.
C17_Witness ==
    \E s, t \in Tasks :
        /\ s < t
        /\ tasks[s].pc = "read" /\ tasks[t].pc = "read"
        /\ tasks[s].written > 0 /\ tasks[t].written > 0
        /\ tasks[s].reads < tasks[t].reads
        /\ Len(Progress(s)) > 0 /\ Len(Progress(t)) > 0
        /\ disk[Dest(s)] = AloneFileAfter(s, tasks[s].written)

\* C18: a transfer leaves its read loop normally only when the stream is
\* exhausted (the read returns an empty chunk), and otherwise only by an
\* error; under fair scheduling every call of download_batch returns or
\* raises, and every pipeline of the call reaches a terminal state.
LeavesLoop(t) == tasks[t].pc = "read" /\ tasks'[t].pc # "read"

LoopExit ==
    \A t \in Tasks :
        LeavesLoop(t)
            => \/ /\ tasks'[t].pc = "done"
                  /\ Remaining(t) = 0
                  /\ tasks'[t].reads = tasks[t].reads
                  /\ disk' = disk
               \/ tasks'[t].pc = "error"

CallOver == gather # "pending" /\ \A t \in Tasks : Terminal(t)

C18_Termination ==
    /\ [][LoopExit]_vars
    /\ (gather = "pending") ~> CallOver

\* A call returned after a transfer of several reads ended at the empty chunk.
C18_Witness ==
    /\ gather = "returned"
    /\ \E t \in Tasks :
          /\ tasks[t].pc = "done"
          /\ tasks[t].reads >= 2
          /\ Remaining(t) = 0

\* Whether file contents hold bytes that no run of the program wrote.
HasLocal(data) == \E i \in 1..Len(data) : data[i].src[1] = "local"

\* The first n bytes of the resource behind url, as file contents.
RemotePrefix(url, n) == Extend(<<>>, RemoteBytes(url, 0, n))

\* C20: a destination that holds nothing but what earlier runs of the program
\* left there (it is absent, empty, or what aborted runs wrote) holds, at every
\* point of every later run, a prefix of the resource; and a run on it that
\* completes leaves the file equal to the whole resource, of size RemoteSize.
C20_ResumeConverges ==
    \A t \in Tasks :
        ~HasLocal(File0(t).data)
            => /\ disk[Dest(t)].data
                    = RemotePrefix(urls[t], getsize(disk[Dest(t)].data))
               /\ getsize(disk[Dest(t)].data) <= Size(t)
               /\ tasks[t].pc \in {"done", "skipped"}
                     => /\ disk[Dest(t)].exists
                        /\ disk[Dest(t)].data = RemoteData(urls[t])
                        /\ getsize(disk[Dest(t)].data) = Size(t)

\* A run that aborted after some chunks left a partial file, and the next run
\* resumed it to the end.
C20_Witness ==
    /\ run > 1
    /\ prev = "raised"
    /\ \E t \in Tasks :
          /\ File0(t).exists
          /\ ~HasLocal(File0(t).data)
          /\ 0 < LocalSize0(t) /\ LocalSize0(t) < Size(t)
          /\ tasks[t].pc = "done"
          /\ tasks[t].decision = "APPEND"
          /\ disk[Dest(t)].data = RemoteData(urls[t])

\* The run before aborted right after opening the file, and the next run
\* overwrote the empty file it left.
C20_WitnessEmpty ==
    /\ run > 1
    /\ prev = "raised"
    /\ \E t \in Tasks :
          /\ File0(t) = [exists |-> TRUE, data |-> <<>>]
          /\ tasks[t].pc = "done"
          /\ tasks[t].decision = "OVERWRITE"
          /\ Size(t) > 0
          /\ disk[Dest(t)].data = RemoteData(urls[t])

====
